---- MODULE Spec2Model ----
(***************************************************************************)
(* A model of the jif GIF decoder: Decoder::parse (src/parser/decoder.rs), *)
(* the LZW decompressor (src/parser/lzw.rs) and the bit reader             *)
(* (src/reader_new/bit_reader.rs).                                         *)
(*                                                                         *)
(* The byte source `inner` is modelled lazily: every handler is offered    *)
(* the next bytes of the stream (drawn from a small library of byte        *)
(* strings, possibly cut short by the end of the stream) and runs on them  *)
(* exactly as the code does.  `input` is the part of the stream consumed   *)
(* so far and `eof` says that nothing follows it.                          *)
(***************************************************************************)
EXTENDS Integers, Sequences, FiniteSets, TLC

VARIABLES
    state,                       \* ParserState of the loop in Decoder::parse
    result,                      \* what parse() has returned, if it has
    version,                     \* Decoder.version
    logical_screen_descriptor,   \* Decoder.logical_screen_descriptor
    global_color_table,          \* Decoder.global_color_table
    special_purpose_extensions,  \* Decoder.special_purpose_extensions
    graphic_blocks,              \* Decoder.graphic_blocks
    loop_count,                  \* Decoder.loop_count
    debug_assertions,            \* the build: are debug_assert!s compiled in
    input,                       \* bytes taken from `inner` so far
    eof,                         \* `inner` holds nothing after `input`
    block_start,                 \* history: offset in `input` of the current block
    blocks,                      \* history: the blocks completed so far
    lzw_buf,                     \* lzw_decode: the argument buf
    lzw_minimum_code_size,       \* lzw_decode: the argument minimum_code_size
    lz,                          \* lzw_decode: its locals and where it stands
    encoded_from,                \* history: the indices `buf` was encoded from, if any
    br_buf,                      \* a BitReader on its own: its buf
    br_reader,                   \* a BitReader on its own: position and length
    br_count,                    \* the argument of the last call of next
    br_value,                    \* what the last call of next returned
    sb_inner,                    \* read_data_sub_blocks on its own: the bytes of `inner`
    sb_out                       \* where it was called and what it returned

vars == <<state, result, version, logical_screen_descriptor, global_color_table,
          special_purpose_extensions, graphic_blocks, loop_count,
          debug_assertions, input, eof, block_start, blocks,
          lzw_buf, lzw_minimum_code_size, lz, encoded_from,
          br_buf, br_reader, br_count, br_value, sb_inner, sb_out>>

\* the variables of a call of lzw_decode on its own
lzw_vars == <<lzw_buf, lzw_minimum_code_size, lz, encoded_from>>

\* the variables of a BitReader on its own
bit_vars == <<br_buf, br_reader, br_count, br_value>>

\* the variables of a call of read_data_sub_blocks on its own
sub_vars == <<sb_inner, sb_out>>

\* the variables of Decoder::parse
parse_vars == <<state, result, version, logical_screen_descriptor, global_color_table,
                special_purpose_extensions, graphic_blocks, loop_count,
                debug_assertions, input, eof, block_start, blocks>>

(***************************************************************************)
(* Bounds of the model.                                                    *)
(***************************************************************************)
\* number of blocks (extensions and images) a modelled stream may hold
MaxBlocks == 3

\* lzw_decode on its own: the largest minimum code size of an encoded
\* sequence, and the number of codes of a stream given code by code
MaxCodeSize == 3
MaxCodes == 4
\* lzw_decode on its own: the length of a run of indices before and after a
\* clear code
MaxRun == 4

\* lzw_decode late in a long stream: how many entries before the 4096th the
\* run is taken up
MaxLate == 120

\* a BitReader on its own: the length of its buffer
MaxBytes == 2

\* read_data_sub_blocks on its own: the length of the stream
MaxStream == 5

(***************************************************************************)
(* Option<T>                                                               *)
(***************************************************************************)
None == [some |-> FALSE]
Some(x) == [some |-> TRUE, val |-> x]

(***************************************************************************)
(* Constants of decoder.rs                                                 *)
(***************************************************************************)
EXTENSION_INTRODUCER == 33
IMAGE_DESCRIPTOR_LABEL == 44
TRAILER_LABEL == 59
APPLICATION_EXTENSION == 255
COMMENT_EXTENSION == 254
GRAPHIC_CONTROL_EXTENSION == 249
PLAIN_TEXT_EXTENSION == 1

\* ASCII
Str_GIF == <<71, 73, 70>>
Str_87a == <<56, 55, 97>>
Str_89a == <<56, 57, 97>>
Str_NETSCAPE == <<78, 69, 84, 83, 67, 65, 80, 69>>
Str_2_0 == <<50, 46, 48>>

(***************************************************************************)
(* Integer helpers: the bit operations of the code on u8 values.           *)
(***************************************************************************)
Pow2(n) == 2 ^ n
Min(a, b) == IF a < b THEN a ELSE b
\* (b >> k) & (2^w - 1)
Bits(b, k, w) == (b \div Pow2(k)) % Pow2(w)
\* b & (1 << k) != 0
BitSet(b, k) == Bits(b, k, 1) = 1
Zeros(n) == [i \in 1..n |-> 0]

(***************************************************************************)
(* Results of parse(): still running, Ok(()), Err(e) or a panic.           *)
(***************************************************************************)
Running == [tag |-> "Running"]
ResOk == [tag |-> "Ok"]
ResErr(name, arg) == [tag |-> "Err", name |-> name, arg |-> arg]
ResPanic == [tag |-> "Panic"]

(***************************************************************************)
(* The byte source.  A read works on `s`, the bytes of the stream offered  *)
(* to the handler, and a cursor `p`, the number of bytes the handler has   *)
(* asked for so far: p > Len(s) says that the handler ran into the end of  *)
(* the stream.                                                             *)
(***************************************************************************)
Max(a, b) == IF a > b THEN a ELSE b

\* std::io::Read::read_exact: all `count` bytes or an UnexpectedEof error
read_exact(s, p, count) ==
    IF p + count <= Len(s)
    THEN [ok |-> TRUE, val |-> SubSeq(s, p + 1, p + count), p |-> p + count]
    ELSE [ok |-> FALSE, err |-> ResErr("UnexpectedEof", 0), p |-> p + count]

\* std::io::Read::read on a file or slice: as many bytes as are left, up to
\* `count`, and never an error; the rest of the zero-initialised buffer
\* stays as it is
read(s, p, count) ==
    LET k == Min(count, Max(0, Len(s) - p))
    IN [ok |-> TRUE, val |-> SubSeq(s, p + 1, p + k) \o Zeros(count - k), p |-> p + count]

u8_from_le_bytes(buffer) == buffer[1]
u16_from_le_bytes(buffer) == buffer[1] + 256 * buffer[2]

\* String::from_utf8 on the byte strings of the model (no multi-byte sequences)
from_utf8_ok(buffer) == \A i \in 1..Len(buffer) : buffer[i] < 128

read_bytes(s, p, count) == read_exact(s, p, count)

read_byte(s, p) ==
    LET r == read_exact(s, p, 1)
    IN IF r.ok THEN [ok |-> TRUE, val |-> u8_from_le_bytes(r.val), p |-> r.p] ELSE r

read_u16(s, p) ==
    LET r == read_exact(s, p, 2)
    IN IF r.ok THEN [ok |-> TRUE, val |-> u16_from_le_bytes(r.val), p |-> r.p] ELSE r

read_str(s, p, count) ==
    LET r == read(s, p, count)
    IN IF from_utf8_ok(r.val) THEN r
       ELSE [ok |-> FALSE, err |-> ResErr("FromUtf8Error", 0), p |-> r.p]

RECURSIVE read_data_sub_blocks_loop(_, _, _, _)
read_data_sub_blocks_loop(s, p, block_size, data) ==
    IF block_size = 0
    THEN [ok |-> TRUE, val |-> data, p |-> p]
    ELSE LET sub_block_buffer == read(s, p, block_size)
             next_size == read_byte(s, sub_block_buffer.p)
         IN IF ~next_size.ok THEN next_size
            ELSE read_data_sub_blocks_loop(s, next_size.p, next_size.val,
                                           data \o sub_block_buffer.val)

\* faulty variant: the chain is taken to end after its first sub-block
read_data_sub_blocks_FirstOnly(s, p) ==
    LET block_size == read_byte(s, p)
    IN IF ~block_size.ok THEN block_size
       ELSE IF block_size.val = 0 THEN [ok |-> TRUE, val |-> <<>>, p |-> block_size.p]
       ELSE LET sub_block_buffer == read(s, block_size.p, block_size.val)
                next_size == read_byte(s, sub_block_buffer.p)
            IN IF ~next_size.ok THEN next_size
               ELSE [ok |-> TRUE, val |-> sub_block_buffer.val, p |-> next_size.p]

\* faulty variant: a chain cut short by the end of the stream is taken as
\* complete
read_data_sub_blocks_ShortIsComplete(s, p) ==
    LET block_size == read_byte(s, p)
        chain == IF block_size.ok
                 THEN read_data_sub_blocks_loop(s, block_size.p, block_size.val, <<>>)
                 ELSE block_size
    IN IF chain.ok THEN chain
       ELSE [ok |-> TRUE, val |-> read(s, p + 1, Len(s) - p - 1).val, p |-> Len(s)]

read_data_sub_blocks(s, p) ==
    LET block_size == read_byte(s, p)
    IN IF ~block_size.ok THEN block_size
       ELSE read_data_sub_blocks_loop(s, block_size.p, block_size.val, <<>>)

\* no call of read_data_sub_blocks under way
SubIdle == [status |-> "idle"]

(***************************************************************************)
(* BitReader (bit_reader.rs): `position` counts bits from the start of     *)
(* `buf`.                                                                   *)
(***************************************************************************)
BitReader_new(buf) == [position |-> 0, length |-> Len(buf) * 8]

\* faulty variant: the highest bit of a byte comes first
BitAt_MsbFirst(buf, i) == Bits(buf[(i \div 8) + 1], 7 - (i % 8), 1)

\* bit i (counted from 0) of the buffer: (buf[i / 8] >> (i % 8)) & 1
BitAt(buf, i) == Bits(buf[(i \div 8) + 1], i % 8, 1)

RECURSIVE BitsValue(_, _, _, _)
\* the for loop of BitReader::next: value |= bit << out_shift
BitsValue(buf, i, end_position, out_shift) ==
    IF i >= end_position THEN 0
    ELSE BitAt(buf, i) * Pow2(out_shift) + BitsValue(buf, i + 1, end_position, out_shift + 1)

\* faulty variant: a call that finds too few bits moves to the end
BitReader_next_SkipsToEnd(buf, reader, count) ==
    LET start_position == reader.position
        end_position == reader.position + count
    IN IF end_position > reader.length
       THEN [some |-> FALSE, reader |-> [reader EXCEPT !.position = reader.length]]
       ELSE [some |-> TRUE,
             val |-> BitsValue(buf, start_position, end_position, 0),
             reader |-> [reader EXCEPT !.position = end_position]]

\* BitReader::next: None when fewer than `count` bits are left, else the
\* value and the reader advanced by `count`
BitReader_next(buf, reader, count) ==
    LET start_position == reader.position
        end_position == reader.position + count
    IN IF end_position > reader.length
       THEN [some |-> FALSE, reader |-> reader]
       ELSE [some |-> TRUE,
             val |-> BitsValue(buf, start_position, end_position, 0),
             reader |-> [reader EXCEPT !.position = end_position]]

(***************************************************************************)
(* lzw_decode (lzw.rs).  code_table[c + 1] is the entry of code c.         *)
(***************************************************************************)
init_code_table(minimum_code_size) ==
    LET min_table_length == Pow2(minimum_code_size) + 1
    IN [i \in 1..(min_table_length + 1) |-> <<(i - 1) % 256>>]

clear_code(minimum_code_size) == Pow2(minimum_code_size)
\* faulty variant: the end code is looked for one code too high
end_of_information_code_OneOff(minimum_code_size) == clear_code(minimum_code_size) + 2

\* lzw.rs:7
end_of_information_code(minimum_code_size) == clear_code(minimum_code_size) + 1

\* code_table.get(code): Some(entry) or None
code_table_get(code_table, code) ==
    IF code < Len(code_table) THEN Some(code_table[code + 1]) ELSE None

\* lzw.rs:26-28, the width after a code has been read
grow_code_size(code_table, code_size) ==
    IF Len(code_table) = Pow2(code_size) - 1 /\ code_size < 12
    THEN code_size + 1 ELSE code_size

LzwPanic == [status |-> "panic"]

\* no call of lzw_decode under way; a call that has not run its first line
LzwIdle == [status |-> "idle"]
LzwCalled == [status |-> "called"]

\* lzw.rs:4-22: the set-up and the first two codes
lzw_start(buf, minimum_code_size) ==
    LET code_table == init_code_table(minimum_code_size)
        code_size == minimum_code_size + 1
        first == BitReader_next(buf, BitReader_new(buf), code_size)
    IN IF ~first.some THEN LzwPanic
       ELSE LET second == BitReader_next(buf, first.reader, code_size)
            IN IF ~second.some THEN LzwPanic
               ELSE LET last_code_indicies == code_table_get(code_table, second.val)
                    IN IF ~last_code_indicies.some THEN LzwPanic
                       ELSE [status |-> "run",
                             code_table |-> code_table,
                             code_size |-> code_size,
                             last_code |-> second.val,
                             indicies |-> last_code_indicies.val,
                             reader |-> second.reader]

\* faulty variant: a clear code leaves the width as it is
code_size_after_clear_Kept(minimum_code_size, code_size) == code_size

\* lzw.rs:32, the width after a clear code read at `code_size`
code_size_after_clear(minimum_code_size, code_size) == minimum_code_size + 1

\* lzw.rs:25-87: one iteration of the while loop
lzw_step(buf, minimum_code_size, st) ==
    LET rd == BitReader_next(buf, st.reader, st.code_size)
    IN IF ~rd.some THEN [st EXCEPT !.status = "done"]
       ELSE
       LET code == rd.val
           code_size == grow_code_size(st.code_table, st.code_size)
       IN IF code = clear_code(minimum_code_size)
          THEN LET reset_size == code_size_after_clear(minimum_code_size, code_size)
                   reset_table == init_code_table(minimum_code_size)
                   nxt == BitReader_next(buf, rd.reader, reset_size)
               IN IF ~nxt.some THEN LzwPanic
                  ELSE LET last_code_indicies == code_table_get(reset_table, nxt.val)
                       IN IF ~last_code_indicies.some THEN LzwPanic
                          ELSE [status |-> "run",
                                code_table |-> reset_table,
                                code_size |-> reset_size,
                                last_code |-> nxt.val,
                                indicies |-> st.indicies \o last_code_indicies.val,
                                reader |-> nxt.reader]
          ELSE IF code = end_of_information_code(minimum_code_size)
          THEN [st EXCEPT !.status = "done", !.code_size = code_size, !.reader = rd.reader]
          ELSE
          LET found == code_table_get(st.code_table, code)
              last_code_entry == code_table_get(st.code_table, st.last_code)
              previous == last_code_entry.val
          IN IF ~last_code_entry.some THEN LzwPanic
             ELSE IF found.some
             THEN LET new_code_table_entry == Append(previous, found.val[1])
                  IN [status |-> "run",
                      code_table |-> Append(st.code_table, new_code_table_entry),
                      code_size |-> code_size,
                      last_code |-> code,
                      indicies |-> st.indicies \o found.val,
                      reader |-> rd.reader]
             ELSE LET new_code_table_entry == Append(previous, previous[1])
                  IN [status |-> "run",
                      code_table |-> Append(st.code_table, new_code_table_entry),
                      code_size |-> code_size,
                      last_code |-> code,
                      indicies |-> st.indicies \o new_code_table_entry,
                      reader |-> rd.reader]

RECURSIVE lzw_run(_, _, _)
lzw_run(buf, minimum_code_size, st) ==
    IF st.status = "run" THEN lzw_run(buf, minimum_code_size, lzw_step(buf, minimum_code_size, st))
    ELSE st

\* the call lzw_decode(buf, minimum_code_size): status "done" with the
\* indices returned, or "panic"
lzw_decode(buf, minimum_code_size) ==
    lzw_run(buf, minimum_code_size, lzw_start(buf, minimum_code_size))

(***************************************************************************)
(* ParserState                                                             *)
(***************************************************************************)
S_ProcessMagic == [tag |-> "ProcessMagic"]
S_ProcessLogicalScreenDescriptor == [tag |-> "ProcessLogicalScreenDescriptor"]
S_ProcessGlobalColorTable == [tag |-> "ProcessGlobalColorTable"]
S_ProcessTrailer == [tag |-> "ProcessTrailer"]
S_DetermineNextBlock(gce) == [tag |-> "DetermineNextBlock", gce |-> gce]
S_ProcessExtension(label) == [tag |-> "ProcessExtension", label |-> label]
S_ProcessImageDescriptor(gce) == [tag |-> "ProcessImageDescriptor", gce |-> gce]
S_ProcessLocalColorTable(graphic_block) ==
    [tag |-> "ProcessLocalColorTable", graphic_block |-> graphic_block]
S_ProcessImageData(graphic_block) ==
    [tag |-> "ProcessImageData", graphic_block |-> graphic_block]
S_Done == [tag |-> "Done"]

(***************************************************************************)
(* The decoder's fields as one record, and what a handler returns: the     *)
(* next state, an error or a panic, with the decoder as it leaves it and   *)
(* the cursor.                                                             *)
(***************************************************************************)
Self == [version |-> version,
         logical_screen_descriptor |-> logical_screen_descriptor,
         global_color_table |-> global_color_table,
         special_purpose_extensions |-> special_purpose_extensions,
         graphic_blocks |-> graphic_blocks,
         loop_count |-> loop_count]

HOk(next, self, p) == [tag |-> "Ok", next |-> next, self |-> self, p |-> p]
HErr(r, self) == [tag |-> "Err", err |-> r.err, self |-> self, p |-> r.p]
HFail(name, arg, self, p) == [tag |-> "Err", err |-> ResErr(name, arg), self |-> self, p |-> p]
HPanic(self, p) == [tag |-> "Panic", self |-> self, p |-> p]

\* Version::try_from(&str)
Version_try_from(value) ==
    IF value = Str_87a THEN Some("V87a")
    ELSE IF value = Str_89a THEN Some("V89a")
    ELSE None

\* 3 * 2_u32.pow(((packed_fields & 0b00000111) + 1).into())
color_table_size(packed_fields) == 3 * Pow2(Bits(packed_fields, 0, 3) + 1)

\* decoder.rs:212-223
on_ProcessMagic(self, s) ==
    LET signature == read_str(s, 0, 3)
    IN IF ~signature.ok THEN HErr(signature, self)
       ELSE IF signature.val # Str_GIF THEN HFail("InvalidSignature", 0, self, signature.p)
       ELSE
       LET ver == read_str(s, signature.p, 3)
       IN IF ~ver.ok THEN HErr(ver, self)
          ELSE IF ~Version_try_from(ver.val).some
          THEN HFail("UnsupportedVersion", ver.val, self, ver.p)
          ELSE HOk(S_ProcessLogicalScreenDescriptor,
                   [self EXCEPT !.version = Some(Version_try_from(ver.val).val)], ver.p)

\* decoder.rs:224-264
on_ProcessLogicalScreenDescriptor(self, s) ==
    LET screen_width == read_u16(s, 0)
    IN IF ~screen_width.ok THEN HErr(screen_width, self) ELSE
    LET screen_height == read_u16(s, screen_width.p)
    IN IF ~screen_height.ok THEN HErr(screen_height, self) ELSE
    LET packed_fields == read_byte(s, screen_height.p)
    IN IF ~packed_fields.ok THEN HErr(packed_fields, self) ELSE
    LET global_color_table_flag == BitSet(packed_fields.val, 7)
        background_color_index == read_byte(s, packed_fields.p)
    IN IF ~background_color_index.ok THEN HErr(background_color_index, self) ELSE
    LET pixel_aspect_ratio == read_byte(s, background_color_index.p)
    IN IF ~pixel_aspect_ratio.ok THEN HErr(pixel_aspect_ratio, self) ELSE
    LET lsd == [screen_height |-> screen_height.val,
                screen_width |-> screen_width.val,
                global_color_table_flag |-> global_color_table_flag,
                color_resolution |-> Bits(packed_fields.val, 4, 3),
                sort_flag |-> BitSet(packed_fields.val, 3),
                global_color_table_size |->
                    IF global_color_table_flag
                    THEN Some(color_table_size(packed_fields.val)) ELSE None,
                background_color_index |-> background_color_index.val,
                pixel_aspect_ratio |-> pixel_aspect_ratio.val]
    IN HOk(IF global_color_table_flag THEN S_ProcessGlobalColorTable
           ELSE S_DetermineNextBlock(None),
           [self EXCEPT !.logical_screen_descriptor = Some(lsd)],
           pixel_aspect_ratio.p)

\* decoder.rs:265-273
on_ProcessGlobalColorTable(self, s) ==
    IF ~self.logical_screen_descriptor.some THEN HPanic(self, 0)
    ELSE IF ~self.logical_screen_descriptor.val.global_color_table_size.some
    THEN HPanic(self, 0)
    ELSE
    LET size == self.logical_screen_descriptor.val.global_color_table_size.val
        table == read_bytes(s, 0, size)
    IN IF ~table.ok THEN HErr(table, self)
       ELSE HOk(S_DetermineNextBlock(None),
                [self EXCEPT !.global_color_table = Some(table.val)], table.p)

\* faulty variant: the parser goes on to the next block after the trailer
on_ProcessTrailer_Continues(self, s) == HOk(S_DetermineNextBlock(None), self, 0)

\* decoder.rs:274-276
on_ProcessTrailer(self, s) == HOk(S_Done, self, 0)

\* decoder.rs:277-288
on_DetermineNextBlock(self, s, graphic_control_extension) ==
    LET introducer_or_label == read_byte(s, 0)
    IN IF ~introducer_or_label.ok THEN HErr(introducer_or_label, self)
       ELSE IF introducer_or_label.val = EXTENSION_INTRODUCER
       THEN LET label == read_byte(s, introducer_or_label.p)
            IN IF ~label.ok THEN HErr(label, self)
               ELSE HOk(S_ProcessExtension(label.val), self, label.p)
       ELSE IF introducer_or_label.val = IMAGE_DESCRIPTOR_LABEL
       THEN HOk(S_ProcessImageDescriptor(graphic_control_extension), self,
                introducer_or_label.p)
       ELSE IF introducer_or_label.val = TRAILER_LABEL
       THEN HOk(S_ProcessTrailer, self, introducer_or_label.p)
       ELSE HFail("UnexpectedLabel", introducer_or_label.val, self, introducer_or_label.p)

\* faulty variant: an unknown label is taken for a comment
ExtensionType_try_from_UnknownIsComment(value) ==
    IF value = APPLICATION_EXTENSION THEN Some("Application")
    ELSE IF value = GRAPHIC_CONTROL_EXTENSION THEN Some("GraphicControl")
    ELSE IF value = PLAIN_TEXT_EXTENSION THEN Some("PlainText")
    ELSE Some("Comment")

\* ExtensionType::try_from(u8), decoder.rs:31-46
ExtensionType_try_from(value) ==
    IF value = APPLICATION_EXTENSION THEN Some("Application")
    ELSE IF value = COMMENT_EXTENSION THEN Some("Comment")
    ELSE IF value = GRAPHIC_CONTROL_EXTENSION THEN Some("GraphicControl")
    ELSE IF value = PLAIN_TEXT_EXTENSION THEN Some("PlainText")
    ELSE None

\* faulty variant: the count 0 is kept as a number
LoopCount_of_ZeroIsNumber(loop_number) == [tag |-> "Number", number |-> loop_number]

\* decoder.rs:386-391
LoopCount_of(loop_number) ==
    IF loop_number = 0 THEN [tag |-> "Infinite"]
    ELSE [tag |-> "Number", number |-> loop_number]

\* decoder.rs:363-403
process_extension_Application(self, s, dbg) ==
    LET block_size == read_byte(s, 0)
    IN IF ~block_size.ok THEN HErr(block_size, self)
       ELSE IF dbg /\ block_size.val # 11 THEN HPanic(self, block_size.p) ELSE
    LET application_identifier == read_str(s, block_size.p, 8)
    IN IF ~application_identifier.ok THEN HErr(application_identifier, self) ELSE
    LET application_authentication_code == read_bytes(s, application_identifier.p, 3)
    IN IF ~application_authentication_code.ok
       THEN HErr(application_authentication_code, self) ELSE
    LET application_data == read_data_sub_blocks(s, application_authentication_code.p)
    IN IF ~application_data.ok THEN HErr(application_data, self) ELSE
    LET netscape == /\ application_identifier.val = Str_NETSCAPE
                    /\ application_authentication_code.val = Str_2_0
        block == [tag |-> "ApplicationBlock",
                  application_identifier |-> application_identifier.val,
                  application_authentication_code |-> application_authentication_code.val,
                  application_data |-> application_data.val]
    IN IF netscape /\ Len(application_data.val) # 3
       THEN HFail("UnexpectedApplicationDescriptorDataLength",
                  Len(application_data.val), self, application_data.p)
       ELSE IF netscape /\ dbg /\ application_data.val[1] # 1
       THEN HPanic(self, application_data.p)
       ELSE
       LET self1 == IF netscape
                    THEN [self EXCEPT !.loop_count = Some(LoopCount_of(
                              u16_from_le_bytes(SubSeq(application_data.val, 2, 3))))]
                    ELSE self
       IN HOk(S_DetermineNextBlock(None),
              [self1 EXCEPT !.special_purpose_extensions = Append(@, block)],
              application_data.p)

\* decoder.rs:404-412
process_extension_Comment(self, s) ==
    LET data == read_data_sub_blocks(s, 0)
    IN IF ~data.ok THEN HErr(data, self)
       ELSE HOk(S_DetermineNextBlock(None),
                [self EXCEPT !.special_purpose_extensions =
                     Append(@, [tag |-> "CommentBlock", data |-> data.val])],
                data.p)

\* faulty variant: the disposal method is taken from bits 3-5
gce_disposal_method_WrongShift(packed_fields) == Bits(packed_fields, 3, 3)

\* decoder.rs:425-427
gce_disposal_method(packed_fields) == Bits(packed_fields, 2, 3)
gce_user_input_flag(packed_fields) == BitSet(packed_fields, 1)
gce_transparent_color_flag(packed_fields) == BitSet(packed_fields, 0)

\* decoder.rs:413-447
process_extension_GraphicControl(self, s, dbg) ==
    LET block_size == read_byte(s, 0)
    IN IF ~block_size.ok THEN HErr(block_size, self)
       ELSE IF dbg /\ block_size.val # 4 THEN HPanic(self, block_size.p) ELSE
    LET packed_fields == read_byte(s, block_size.p)
    IN IF ~packed_fields.ok THEN HErr(packed_fields, self) ELSE
    LET delay_time == read_u16(s, packed_fields.p)
    IN IF ~delay_time.ok THEN HErr(delay_time, self) ELSE
    LET transparent_color_index == read_byte(s, delay_time.p)
    IN IF ~transparent_color_index.ok THEN HErr(transparent_color_index, self) ELSE
    LET block_terminator == read_byte(s, transparent_color_index.p)
    IN IF ~block_terminator.ok THEN HErr(block_terminator, self)
       ELSE IF block_terminator.val # 0 THEN HPanic(self, block_terminator.p) ELSE
    LET graphic_control_extension ==
            [disposal_method |-> gce_disposal_method(packed_fields.val),
             user_input_flag |-> gce_user_input_flag(packed_fields.val),
             transparent_color_flag |-> gce_transparent_color_flag(packed_fields.val),
             delay_time |-> delay_time.val,
             transparent_color_index |-> transparent_color_index.val]
    IN HOk(S_DetermineNextBlock(Some(graphic_control_extension)), self, block_terminator.p)

\* decoder.rs:448-459
process_extension_PlainText(self, s, dbg) ==
    LET block_size == read_byte(s, 0)
    IN IF ~block_size.ok THEN HErr(block_size, self)
       ELSE IF dbg /\ block_size.val # 12 THEN HPanic(self, block_size.p) ELSE
    LET skipped == read_bytes(s, block_size.p, 12)
    IN IF ~skipped.ok THEN HErr(skipped, self) ELSE
    LET data == read_data_sub_blocks(s, skipped.p)
    IN IF ~data.ok THEN HErr(data, self)
       ELSE HOk(S_DetermineNextBlock(None), self, data.p)

\* decoder.rs:358-461
process_extension(self, s, label, dbg) ==
    CASE label = "Application" -> process_extension_Application(self, s, dbg)
      [] label = "Comment" -> process_extension_Comment(self, s)
      [] label = "GraphicControl" -> process_extension_GraphicControl(self, s, dbg)
      [] label = "PlainText" -> process_extension_PlainText(self, s, dbg)

\* decoder.rs:289
on_ProcessExtension(self, s, label, dbg) ==
    LET extension_type == ExtensionType_try_from(label)
    IN IF ~extension_type.some THEN HFail("InvalidExtensionLabel", label, self, 0)
       ELSE process_extension(self, s, extension_type.val, dbg)

\* decoder.rs:290-333
on_ProcessImageDescriptor(self, s, graphic_control_extension) ==
    LET left_position == read_u16(s, 0)
    IN IF ~left_position.ok THEN HErr(left_position, self) ELSE
    LET top_position == read_u16(s, left_position.p)
    IN IF ~top_position.ok THEN HErr(top_position, self) ELSE
    LET width == read_u16(s, top_position.p)
    IN IF ~width.ok THEN HErr(width, self) ELSE
    LET height == read_u16(s, width.p)
    IN IF ~height.ok THEN HErr(height, self) ELSE
    LET packed_fields == read_byte(s, height.p)
    IN IF ~packed_fields.ok THEN HErr(packed_fields, self) ELSE
    LET local_color_table_flag == BitSet(packed_fields.val, 7)
        graphic_block ==
            [extension |-> graphic_control_extension,
             render_block |->
                [left_position |-> left_position.val,
                 top_position |-> top_position.val,
                 width |-> width.val,
                 height |-> height.val,
                 local_color_table_flag |-> local_color_table_flag,
                 interlace_flag |-> BitSet(packed_fields.val, 6),
                 sort_flag |-> BitSet(packed_fields.val, 5),
                 local_color_table_size |->
                     IF local_color_table_flag
                     THEN Some(color_table_size(packed_fields.val)) ELSE None,
                 local_color_table |-> None,
                 image_indexes |-> None]]
    IN HOk(IF local_color_table_flag THEN S_ProcessLocalColorTable(graphic_block)
           ELSE S_ProcessImageData(graphic_block),
           self, packed_fields.p)

\* decoder.rs:334-340
on_ProcessLocalColorTable(self, s, graphic_block) ==
    IF ~graphic_block.render_block.local_color_table_size.some THEN HPanic(self, 0)
    ELSE
    LET table == read_bytes(s, 0, graphic_block.render_block.local_color_table_size.val)
    IN IF ~table.ok THEN HErr(table, self)
       ELSE HOk(S_ProcessImageData(
                    [graphic_block EXCEPT !.render_block.local_color_table = Some(table.val)]),
                self, table.p)

\* faulty variant: the graphic control stays pending after its image
after_image_data_KeepsExtension(graphic_block) ==
    S_DetermineNextBlock(graphic_block.extension)

\* decoder.rs:350, the state an image block ends in
after_image_data(graphic_block) == S_DetermineNextBlock(None)

\* faulty variant: the new frame is put in front
push_graphic_block_Front(blocks_vec, graphic_block) == <<graphic_block>> \o blocks_vec

\* decoder.rs:348
push_graphic_block(blocks_vec, graphic_block) == Append(blocks_vec, graphic_block)

\* decoder.rs:341-351
on_ProcessImageData(self, s, graphic_block) ==
    LET lzw_code_size == read_byte(s, 0)
    IN IF ~lzw_code_size.ok THEN HErr(lzw_code_size, self) ELSE
    LET data_stream == read_data_sub_blocks(s, lzw_code_size.p)
    IN IF ~data_stream.ok THEN HErr(data_stream, self) ELSE
    LET decoded == lzw_decode(data_stream.val, lzw_code_size.val)
    IN IF decoded.status = "panic" THEN HPanic(self, data_stream.p) ELSE
    LET done == [graphic_block EXCEPT !.render_block.image_indexes = Some(decoded.indicies)]
    IN HOk(after_image_data(done),
           [self EXCEPT !.graphic_blocks = push_graphic_block(@, done)],
           data_stream.p)

(***************************************************************************)
(* The inputs of the model: for every parser state, the byte strings the   *)
(* stream may hold at that point.  Each may also be missing altogether,    *)
(* and those of CutShortInputs may be cut short by the end of the stream   *)
(* after any of their bytes.                                               *)
(***************************************************************************)
\* "GIF89a", "GIF88a", "JIF89a" and the first six bytes of a PNG file
MagicInputs ==
    {Str_GIF \o Str_89a, Str_GIF \o <<56, 56, 97>>, <<74, 73, 70>> \o Str_89a,
     <<137, 80, 78, 71, 13, 10>>}

\* a 1x1 screen with a global color table of 2 entries
ScreenDescriptorInputs == {<<1, 0, 1, 0, 128, 0, 0>>}

GlobalColorTableInputs == {<<0, 0, 0, 255, 255, 255>>}

\* the four extensions, two unknown extension labels (2 and the label of an
\* image), an image, the trailer and two unknown block labels (0 and the
\* label of a graphic control extension)
BlockInputs ==
    {<<EXTENSION_INTRODUCER, l>> : l \in {PLAIN_TEXT_EXTENSION, GRAPHIC_CONTROL_EXTENSION,
                                          COMMENT_EXTENSION, APPLICATION_EXTENSION, 2,
                                          IMAGE_DESCRIPTOR_LABEL}}
    \cup {<<IMAGE_DESCRIPTOR_LABEL>>}

EndInputs == {<<TRAILER_LABEL>>, <<0>>, <<GRAPHIC_CONTROL_EXTENSION>>}

\* block size, packed fields, delay (2 bytes), transparent index, terminator
GraphicControlInputs ==
    {<<4, 0, 10, 0, 0, 0>>,      \* delay 10, disposal 0
     <<4, 9, 2, 1, 3, 0>>,       \* delay 258, disposal 2, transparent index 3
     <<4, 30, 0, 0, 0, 0>>,      \* disposal 7, user input
     <<5, 0, 10, 0, 0, 0>>,      \* block size 5
     <<4, 0, 10, 0, 0, 1>>}      \* block terminator 1

CommentInputs == {<<0>>, <<1, 66, 1, 67, 0>>}

ApplicationInputs ==
    {<<11>> \o Str_NETSCAPE \o Str_2_0 \o <<3, 1, 0, 0, 0>>,    \* loop forever
     <<11>> \o Str_NETSCAPE \o Str_2_0 \o <<3, 1, 2, 1, 0>>,    \* loop 258 times
     <<11>> \o Str_NETSCAPE \o Str_2_0 \o <<2, 1, 0, 0>>,       \* 2 bytes of data
     <<11>> \o Str_NETSCAPE \o Str_2_0 \o <<3, 2, 1, 0, 0>>,    \* first data byte 2
     <<11>> \o <<88, 77, 80, 32, 68, 97, 116, 97>> \o <<88, 77, 80>> \o <<1, 7, 0>>,
     <<10>> \o Str_NETSCAPE \o Str_2_0 \o <<2, 1, 0, 0>>}           \* block size 10

\* the second one has block size 11 and ends there
PlainTextInputs == {<<12>> \o Zeros(12) \o <<0>>, <<11>> \o Zeros(12)}

ExtensionInputs(label) ==
    CASE label = APPLICATION_EXTENSION -> ApplicationInputs
      [] label = COMMENT_EXTENSION -> CommentInputs
      [] label = GRAPHIC_CONTROL_EXTENSION -> GraphicControlInputs
      [] label = PLAIN_TEXT_EXTENSION -> PlainTextInputs
      [] OTHER -> {<<>>}

\* left, top, width, height, packed fields: 1x1, and 2x1 with a local color
\* table of 2 entries
ImageDescriptorInputs ==
    {<<0, 0, 0, 0, 1, 0, 1, 0, 0>>, <<1, 0, 2, 0, 2, 0, 1, 0, 128>>}

LocalColorTableInputs == {<<1, 2, 3, 4, 5, 6>>}

\* the minimum code size, then the sub-blocks of the LZW stream
ImageDataInputs ==
    {<<2, 2, 68, 1, 0>>,     \* codes 4 0 5: clear, 0, end
     <<2, 1, 60, 0>>,        \* codes 4 7
     <<2, 0>>,               \* no code at all
     <<0, 1, 0, 0>>}         \* minimum code size 0, eight codes 0 of one bit

(***************************************************************************)
(* One turn of the loop of Decoder::parse (decoder.rs:195-206): the        *)
(* handler's outcome `h` on the first n bytes of `c` becomes the new state *)
(* of the parser, the decoder and the stream.  `kind` names the block the  *)
(* handler completes, for the history.                                     *)
(***************************************************************************)
\* one byte string of every kind, at which the stream may end after any byte
CutShortInputs ==
    {Str_GIF \o Str_89a,
     <<1, 0, 1, 0, 128, 0, 0>>,
     <<0, 0, 0, 255, 255, 255>>,
     <<4, 9, 2, 1, 3, 0>>,
     <<1, 66, 1, 67, 0>>,
     <<11>> \o Str_NETSCAPE \o Str_2_0 \o <<3, 1, 2, 1, 0>>,
     <<12>> \o Zeros(12) \o <<0>>,
     <<1, 0, 2, 0, 2, 0, 1, 0, 128>>,
     <<1, 2, 3, 4, 5, 6>>,
     <<2, 2, 68, 1, 0>>}

Offered(c) ==
    {SubSeq(c, 1, n) : n \in IF eof THEN {0}
                             ELSE IF c \in CutShortInputs \/ Len(c) <= 2 THEN 0..Len(c)
                             ELSE {0, Len(c)}}

Commit(h, c, s, kind) ==
    LET hit == h.p > Len(s)
        used == Min(h.p, Len(s))
    IN /\ h.tag = "Ok" => (h.p >= Len(s) /\ (hit \/ s = c))
       /\ input' = input \o SubSeq(s, 1, used)
       /\ eof' = (eof \/ hit \/ (h.p = Len(s) /\ s # c))
       /\ state' = IF h.tag = "Ok" THEN h.next ELSE state
       /\ result' = CASE h.tag = "Ok" -> IF h.next = S_Done THEN ResOk ELSE Running
                      [] h.tag = "Err" -> h.err
                      [] h.tag = "Panic" -> ResPanic
       /\ version' = h.self.version
       /\ logical_screen_descriptor' = h.self.logical_screen_descriptor
       /\ global_color_table' = h.self.global_color_table
       /\ special_purpose_extensions' = h.self.special_purpose_extensions
       /\ graphic_blocks' = h.self.graphic_blocks
       /\ loop_count' = h.self.loop_count
       /\ blocks' = IF h.tag = "Ok" /\ kind # "none"
                    THEN Append(blocks, [kind |-> kind, at |-> block_start])
                    ELSE blocks
       /\ UNCHANGED debug_assertions
       /\ UNCHANGED lzw_vars
       /\ UNCHANGED bit_vars
       /\ UNCHANGED sub_vars

InState(tag) == result = Running /\ state.tag = tag

Init ==
    /\ state = S_ProcessMagic
    /\ result = Running
    /\ version = None
    /\ logical_screen_descriptor = None
    /\ global_color_table = None
    /\ special_purpose_extensions = <<>>
    /\ graphic_blocks = <<>>
    /\ loop_count = None
    /\ debug_assertions \in BOOLEAN
    /\ input = <<>>
    /\ eof = FALSE
    /\ block_start = 0
    /\ blocks = <<>>
    /\ lzw_buf = <<>>
    /\ lzw_minimum_code_size = 0
    /\ lz = LzwIdle
    /\ encoded_from = None
    /\ br_buf = <<>>
    /\ br_reader = BitReader_new(<<>>)
    /\ br_count = 0
    /\ br_value = None
    /\ sb_inner = <<>>
    /\ sb_out = SubIdle

ProcessMagic ==
    /\ InState("ProcessMagic")
    /\ \E c \in MagicInputs : \E s \in Offered(c) :
          Commit(on_ProcessMagic(Self, s), c, s, "none")
    /\ UNCHANGED block_start

ProcessLogicalScreenDescriptor ==
    /\ InState("ProcessLogicalScreenDescriptor")
    /\ \E c \in ScreenDescriptorInputs : \E s \in Offered(c) :
          Commit(on_ProcessLogicalScreenDescriptor(Self, s), c, s, "none")
    /\ UNCHANGED block_start

ProcessGlobalColorTable ==
    /\ InState("ProcessGlobalColorTable")
    /\ \E c \in GlobalColorTableInputs : \E s \in Offered(c) :
          Commit(on_ProcessGlobalColorTable(Self, s), c, s, "none")
    /\ UNCHANGED block_start

ProcessTrailer ==
    /\ InState("ProcessTrailer")
    /\ Commit(on_ProcessTrailer(Self, <<>>), <<>>, <<>>, "none")
    /\ UNCHANGED block_start

DetermineNextBlock ==
    /\ InState("DetermineNextBlock")
    /\ \E c \in (IF Len(blocks) < MaxBlocks THEN BlockInputs ELSE {}) \cup EndInputs :
       \E s \in Offered(c) :
          Commit(on_DetermineNextBlock(Self, s, state.gce), c, s, "none")
    /\ block_start' = Len(input)

ProcessExtension ==
    /\ InState("ProcessExtension")
    /\ \E c \in ExtensionInputs(state.label) : \E s \in Offered(c) :
          Commit(on_ProcessExtension(Self, s, state.label, debug_assertions), c, s,
                 IF ExtensionType_try_from(state.label).some
                 THEN ExtensionType_try_from(state.label).val ELSE "none")
    /\ UNCHANGED block_start

ProcessImageDescriptor ==
    /\ InState("ProcessImageDescriptor")
    /\ \E c \in ImageDescriptorInputs : \E s \in Offered(c) :
          Commit(on_ProcessImageDescriptor(Self, s, state.gce), c, s, "none")
    /\ UNCHANGED block_start

ProcessLocalColorTable ==
    /\ InState("ProcessLocalColorTable")
    /\ \E c \in LocalColorTableInputs : \E s \in Offered(c) :
          Commit(on_ProcessLocalColorTable(Self, s, state.graphic_block), c, s, "none")
    /\ UNCHANGED block_start

ProcessImageData ==
    /\ InState("ProcessImageData")
    /\ \E c \in ImageDataInputs : \E s \in Offered(c) :
          Commit(on_ProcessImageData(Self, s, state.graphic_block), c, s, "Image")
    /\ UNCHANGED block_start

Next ==
    \/ ProcessMagic
    \/ ProcessLogicalScreenDescriptor
    \/ ProcessGlobalColorTable
    \/ ProcessTrailer
    \/ DetermineNextBlock
    \/ ProcessExtension
    \/ ProcessImageDescriptor
    \/ ProcessLocalColorTable
    \/ ProcessImageData

Spec == Init /\ [][Next]_vars

\* parse() is a loop of one thread (decoder.rs:198-205): as long as it has
\* not returned it takes its next turn
FairSpec == Spec /\ WF_vars(Next)

(***************************************************************************)
(* lzw_decode on its own: one call on a buffer, a step for the lines       *)
(* before the loop and a step for every iteration of the loop.             *)
(*                                                                         *)
(* The buffers are the encodings of index sequences by the reference       *)
(* encoder below, and all short streams of codes of minimum_code_size + 1  *)
(* bits.  The encoder is the usual GIF one: a clear code first, the        *)
(* longest known string at every step, the end code last; a code is        *)
(* written one bit wider as soon as the index the dictionary assigns next  *)
(* to the code just written is 2^width.                                    *)
(***************************************************************************)
\* the bits of a code, least significant first
CodeBits(code, width) == [i \in 1..width |-> (code \div Pow2(i - 1)) % 2]

RECURSIVE BitsOfCodes(_)
\* codes: a sequence of [code, width]
BitsOfCodes(codes) ==
    IF codes = <<>> THEN <<>>
    ELSE CodeBits(Head(codes).code, Head(codes).width) \o BitsOfCodes(Tail(codes))

\* the bits in bytes, the first bit in the lowest bit of the first byte,
\* the last byte filled up with zeros
PackBits(bits) ==
    LET bit(i) == IF i <= Len(bits) THEN bits[i] ELSE 0
    IN [j \in 1..((Len(bits) + 7) \div 8) |->
           bit(8 * j - 7) + 2 * bit(8 * j - 6) + 4 * bit(8 * j - 5) + 8 * bit(8 * j - 4)
           + 16 * bit(8 * j - 3) + 32 * bit(8 * j - 2) + 64 * bit(8 * j - 1)
           + 128 * bit(8 * j)]

\* the encoder's dictionary at the start: the single indices, and no string
\* for the clear and the end code
EncoderTable(k) == [i \in 1..(Pow2(k) + 2) |-> IF i <= Pow2(k) THEN <<i - 1>> ELSE <<>>]

EncoderCodeOf(dict, str) == CHOOSE c \in 0..(Len(dict) - 1) : dict[c + 1] = str

\* the width after a code has been written, `next_index` being the index
\* the next new string gets
EncoderWidth(next_index, width) ==
    IF next_index = Pow2(width) /\ width < 12 THEN width + 1 ELSE width

\* an item of the encoder's input that is not an index but the request to
\* write a clear code and start afresh; an index follows it
IsClearRequest(x) == x < 0
ClearRequest == <<-1>>

RECURSIVE EncoderLoop(_, _, _, _, _, _)
\* `prefix` is the string matched so far, `out` the codes written so far
EncoderLoop(k, rest, dict, prefix, width, out) ==
    IF rest = <<>>
    THEN out \o <<[code |-> EncoderCodeOf(dict, prefix), width |-> width],
                  [code |-> Pow2(k) + 1, width |-> EncoderWidth(Len(dict), width)]>>
    ELSE IF IsClearRequest(Head(rest))
    THEN EncoderLoop(k, Tail(Tail(rest)), EncoderTable(k), <<Head(Tail(rest))>>, k + 1,
                     out \o <<[code |-> EncoderCodeOf(dict, prefix), width |-> width],
                              [code |-> Pow2(k), width |-> EncoderWidth(Len(dict), width)]>>)
    ELSE LET longer == Append(prefix, Head(rest))
         IN IF \E c \in 1..Len(dict) : dict[c] = longer
            THEN EncoderLoop(k, Tail(rest), dict, longer, width, out)
            ELSE EncoderLoop(k, Tail(rest), Append(dict, longer), <<Head(rest)>>,
                             EncoderWidth(Len(dict), width),
                             Append(out, [code |-> EncoderCodeOf(dict, prefix),
                                          width |-> width]))

\* the codes of a non-empty index sequence at minimum code size k
EncoderCodes(indices, k) ==
    EncoderLoop(k, Tail(indices), EncoderTable(k), <<Head(indices)>>, k + 1,
                <<[code |-> Pow2(k), width |-> k + 1]>>)

Encode(indices, k) == PackBits(BitsOfCodes(EncoderCodes(indices, k)))

\* the index sequence 0, 1, ..., n - 1
Identity(n) == [i \in 1..n |-> i - 1]

\* the encodings of 0..n-1 for n <= 2^k
EncodedInputs ==
    UNION {{[k |-> k, buf |-> Encode(Identity(n), k), from |-> Some(Identity(n))]
                : n \in 1..Pow2(k)} : k \in 1..MaxCodeSize}

\* the sequences of 1 to MaxRun indices 0 and 1
Runs == UNION {[1..m -> 0..1] : m \in 1..MaxRun}

\* the encodings, at minimum code size 2, of two runs with a clear code
\* between them
ClearInputs ==
    {[k |-> 2, buf |-> Encode(ab[1] \o ClearRequest \o ab[2], 2), from |-> Some(ab[1] \o ab[2])]
        : ab \in Runs \X Runs}

\* the stream of the codes cs, each of k + 1 bits
CodeStream(cs, k) ==
    PackBits(BitsOfCodes([i \in 1..Len(cs) |-> [code |-> cs[i], width |-> k + 1]]))

InitLzw ==
    /\ state = S_ProcessMagic
    /\ result = Running
    /\ version = None
    /\ logical_screen_descriptor = None
    /\ global_color_table = None
    /\ special_purpose_extensions = <<>>
    /\ graphic_blocks = <<>>
    /\ loop_count = None
    /\ debug_assertions \in BOOLEAN
    /\ input = <<>>
    /\ eof = FALSE
    /\ block_start = 0
    /\ blocks = <<>>
    /\ \/ \E i \in EncodedInputs \cup ClearInputs :
             /\ lzw_buf = i.buf
             /\ lzw_minimum_code_size = i.k
             /\ encoded_from = i.from
       \* every stream of at most MaxCodes codes of k + 1 bits, for k = 1, 2
       \/ \E k \in 1..2 : \E m \in 0..MaxCodes : \E cs \in [1..m -> 0..(Pow2(k + 1) - 1)] :
             /\ lzw_buf = CodeStream(cs, k)
             /\ lzw_minimum_code_size = k
             /\ encoded_from = None
    /\ lz = LzwCalled
    /\ br_buf = <<>>
    /\ br_reader = BitReader_new(<<>>)
    /\ br_count = 0
    /\ br_value = None
    /\ sb_inner = <<>>
    /\ sb_out = SubIdle

\* lzw.rs:4-22
LzwStart ==
    /\ lz.status = "called"
    /\ lz' = lzw_start(lzw_buf, lzw_minimum_code_size)
    /\ UNCHANGED <<lzw_buf, lzw_minimum_code_size, encoded_from>>
    /\ UNCHANGED parse_vars
    /\ UNCHANGED bit_vars
    /\ UNCHANGED sub_vars

\* lzw.rs:25-87, one iteration; the loop ends with status "done"
LzwStep ==
    /\ lz.status = "run"
    /\ lz' = lzw_step(lzw_buf, lzw_minimum_code_size, lz)
    /\ UNCHANGED <<lzw_buf, lzw_minimum_code_size, encoded_from>>
    /\ UNCHANGED parse_vars
    /\ UNCHANGED bit_vars
    /\ UNCHANGED sub_vars

NextLzw ==
    \/ LzwStart
    \/ LzwStep

SpecLzw == InitLzw /\ [][NextLzw]_vars

(***************************************************************************)
(* A BitReader on its own: a buffer of at most MaxBytes bytes and any      *)
(* sequence of calls of next with 1 to 12 bits.                            *)
(***************************************************************************)
\* 0x84 and 0x8F are the first bytes of the buffer of tests::it_works
ByteValues == {0, 132, 143, 255}

InitBits ==
    /\ state = S_ProcessMagic
    /\ result = Running
    /\ version = None
    /\ logical_screen_descriptor = None
    /\ global_color_table = None
    /\ special_purpose_extensions = <<>>
    /\ graphic_blocks = <<>>
    /\ loop_count = None
    /\ debug_assertions \in BOOLEAN
    /\ input = <<>>
    /\ eof = FALSE
    /\ block_start = 0
    /\ blocks = <<>>
    /\ lzw_buf = <<>>
    /\ lzw_minimum_code_size = 0
    /\ lz = LzwIdle
    /\ encoded_from = None
    /\ \E n \in 0..MaxBytes : br_buf \in [1..n -> ByteValues]
    /\ br_reader = BitReader_new(br_buf)
    /\ br_count = 0
    /\ br_value = None
    /\ sb_inner = <<>>
    /\ sb_out = SubIdle

\* bit_reader.rs:17-37, a call reader.next(count)
BitNext ==
    /\ \E count \in 1..12 :
          LET r == BitReader_next(br_buf, br_reader, count)
          IN /\ br_reader' = r.reader
             /\ br_count' = count
             /\ br_value' = IF r.some THEN Some(r.val) ELSE None
    /\ UNCHANGED br_buf
    /\ UNCHANGED lzw_vars
    /\ UNCHANGED parse_vars
    /\ UNCHANGED sub_vars

NextBits == BitNext

SpecBits == InitBits /\ [][NextBits]_vars

(***************************************************************************)
(* read_data_sub_blocks on its own: a stream of at most MaxStream bytes,   *)
(* the call starting at its first or second byte.                          *)
(***************************************************************************)
SubBytes == {0, 1, 2, 7}

InitSub ==
    /\ state = S_ProcessMagic
    /\ result = Running
    /\ version = None
    /\ logical_screen_descriptor = None
    /\ global_color_table = None
    /\ special_purpose_extensions = <<>>
    /\ graphic_blocks = <<>>
    /\ loop_count = None
    /\ debug_assertions \in BOOLEAN
    /\ input = <<>>
    /\ eof = FALSE
    /\ block_start = 0
    /\ blocks = <<>>
    /\ lzw_buf = <<>>
    /\ lzw_minimum_code_size = 0
    /\ lz = LzwIdle
    /\ encoded_from = None
    /\ br_buf = <<>>
    /\ br_reader = BitReader_new(<<>>)
    /\ br_count = 0
    /\ br_value = None
    /\ \E n \in 0..MaxStream : sb_inner \in [1..n -> SubBytes]
    /\ sb_out = SubIdle

\* decoder.rs:490-510, a call with `from` bytes of the stream already taken
ReadDataSubBlocks ==
    /\ sb_out = SubIdle
    /\ \E from \in 0..Min(1, Len(sb_inner)) :
          LET r == read_data_sub_blocks(sb_inner, from)
          IN sb_out' = IF r.ok
                       THEN [status |-> "Ok", from |-> from, val |-> r.val, p |-> r.p]
                       ELSE [status |-> "Err", from |-> from, err |-> r.err, p |-> r.p]
    /\ UNCHANGED sb_inner
    /\ UNCHANGED parse_vars
    /\ UNCHANGED lzw_vars
    /\ UNCHANGED bit_vars

NextSub == ReadDataSubBlocks

SpecSub == InitSub /\ [][NextSub]_vars

(***************************************************************************)
(* lzw_decode late in a long stream: the call lzw_decode(buf, 2) on a      *)
(* buffer of zero bytes, from its start and also taken up when its loop    *)
(* has run n times, which gives the states of the same run.  Every         *)
(* code of the stream is 0 whatever the width, so the second code makes 0  *)
(* the previous code (lzw.rs:16-22) and every iteration takes the arm of   *)
(* lzw.rs:45-65 with code 0: it puts out 0, appends {0}+0 = 0 0 and leaves *)
(* 0 the previous code.                                                    *)
(***************************************************************************)
\* code_size once the table holds `len` entries (lzw.rs:26-28): it went up
\* at each length 2^w - 1, up to 12
ZeroRunWidth(len) ==
    IF len >= 2048 THEN 12 ELSE CHOOSE w \in 3..11 : Pow2(w - 1) <= len /\ len < Pow2(w)

RECURSIVE ZeroRunBits(_, _)
\* the bits of the codes read while the table grew from 6 to `len` entries:
\* the code that makes the table l + 1 entries long is read at the width
\* reached with l entries; summed width by width from w on
ZeroRunBits(w, len) ==
    IF w > 12 THEN 0
    ELSE LET first == IF w = 3 THEN 6 ELSE Pow2(w - 1)
             last == IF w = 12 THEN len - 1 ELSE Min(len - 1, Pow2(w) - 1)
         IN w * Max(0, last - first + 1) + ZeroRunBits(w + 1, len)

\* the locals of lzw_decode after n iterations of the loop
ZeroRunState(buf, n) ==
    [status |-> "run",
     code_table |-> init_code_table(2) \o [i \in 1..n |-> <<0, 0>>],
     code_size |-> ZeroRunWidth(6 + n),
     last_code |-> 0,
     indicies |-> Zeros(n + 1),
     reader |-> [position |-> 6 + ZeroRunBits(3, 6 + n), length |-> 8 * Len(buf)]]

\* bytes enough for the table to reach 4098 entries
ZeroRunBytes == (6 + ZeroRunBits(3, 4098)) \div 8 + 1

InitLzwLate ==
    /\ state = S_ProcessMagic
    /\ result = Running
    /\ version = None
    /\ logical_screen_descriptor = None
    /\ global_color_table = None
    /\ special_purpose_extensions = <<>>
    /\ graphic_blocks = <<>>
    /\ loop_count = None
    /\ debug_assertions \in BOOLEAN
    /\ input = <<>>
    /\ eof = FALSE
    /\ block_start = 0
    /\ blocks = <<>>
    /\ lzw_buf = Zeros(ZeroRunBytes)
    /\ lzw_minimum_code_size = 2
    /\ encoded_from = None
    /\ \/ lz = LzwCalled
       \/ \E len \in (4096 - MaxLate)..4096 : lz = ZeroRunState(lzw_buf, len - 6)
    /\ br_buf = <<>>
    /\ br_reader = BitReader_new(<<>>)
    /\ br_count = 0
    /\ br_value = None
    /\ sb_inner = <<>>
    /\ sb_out = SubIdle

SpecLzwLate == InitLzwLate /\ [][NextLzw]_vars

(***************************************************************************)
(* The history read back: blocks[i].at is the offset in `input` of the     *)
(* first byte of the i-th completed block (its 0x21 or 0x2C byte).         *)
(***************************************************************************)
IsPrefix(a, b) == Len(a) <= Len(b) /\ SubSeq(b, 1, Len(a)) = a

KindAt(i) == blocks[i].kind
ImageEntries == {i \in 1..Len(blocks) : KindAt(i) = "Image"}
SpecialEntries == {i \in 1..Len(blocks) : KindAt(i) \in {"Comment", "Application"}}
NonGraphic == {"Comment", "Application", "PlainText"}

\* the frame of the image block blocks[i], the extension entry of blocks[i]
FrameOf(i) == graphic_blocks[Cardinality({j \in ImageEntries : j <= i})]
SpecialOf(i) == special_purpose_extensions[Cardinality({j \in SpecialEntries : j <= i})]

\* the graphic control record that the bytes 21 F9 ss pp dl dh ti 00 at
\* offset `at` of the stream spell out
RawGraphicControl(at) ==
    [disposal_method |-> (input[at + 4] \div 4) % 8,
     user_input_flag |-> (input[at + 4] \div 2) % 2 = 1,
     transparent_color_flag |-> input[at + 4] % 2 = 1,
     delay_time |-> input[at + 5] + 256 * input[at + 6],
     transparent_color_index |-> input[at + 7]]

\* blocks[j] is a graphic control still pending at blocks[i] in the reading
\* of the specification: only non-graphic extensions lie between them
PendingAt(j, i) ==
    /\ j < i
    /\ KindAt(j) = "GraphicControl"
    /\ \A k \in (j + 1)..(i - 1) : KindAt(k) \in NonGraphic

(***************************************************************************)
(* C1: a graphic control followed by zero or more comment, application or  *)
(* plain-text extensions and then an image is carried by that image's      *)
(* frame.                                                                  *)
(***************************************************************************)
C1_PendingSurvivesExtensions ==
    \A i \in ImageEntries : \A j \in 1..Len(blocks) :
        PendingAt(j, i) => FrameOf(i).extension = Some(RawGraphicControl(blocks[j].at))

(***************************************************************************)
(* C2: a second graphic control met while one is pending (no image between *)
(* them) is never accepted: the parser does not complete it.               *)
(***************************************************************************)
C2_SecondGraphicControlFails ==
    \A i, j \in 1..Len(blocks) :
        ~(/\ i < j
          /\ KindAt(i) = "GraphicControl"
          /\ KindAt(j) = "GraphicControl"
          /\ \A k \in (i + 1)..(j - 1) : KindAt(k) # "Image")

(***************************************************************************)
(* C3: parse() never returns Ok when the trailer is reached while a        *)
(* graphic control is pending (the last block before the trailer).         *)
(***************************************************************************)
C3_TrailerWithPendingFails ==
    result = ResOk => ~(Len(blocks) > 0 /\ KindAt(Len(blocks)) = "GraphicControl")

(***************************************************************************)
(* C4: a graphic control record is attached to at most one frame: a frame  *)
(* has an extension exactly when its image directly follows a graphic      *)
(* control, and once an image block is completed nothing is pending.       *)
(***************************************************************************)
C4_RecordAttachedAtMostOnce ==
    /\ \A i \in ImageEntries :
          FrameOf(i).extension.some <=> (i > 1 /\ KindAt(i - 1) = "GraphicControl")
    /\ (/\ result = Running
        /\ state.tag = "DetermineNextBlock"
        /\ Len(blocks) > 0
        /\ KindAt(Len(blocks)) = "Image") => state.gce = None

C4_Witness ==
    /\ Len(blocks) = 3
    /\ KindAt(1) = "GraphicControl" /\ KindAt(2) = "Image" /\ KindAt(3) = "Image"
    /\ graphic_blocks[1].extension.some
    /\ graphic_blocks[2].extension = None

(***************************************************************************)
(* C5: the frame of an image directly preceded by a graphic control        *)
(* carries exactly the fields the extension's bytes spell out.             *)
(***************************************************************************)
C5_FrameCarriesGraphicControlFields ==
    \A i \in ImageEntries :
        (i > 1 /\ KindAt(i - 1) = "GraphicControl")
            => FrameOf(i).extension = Some(RawGraphicControl(blocks[i - 1].at))

C5_Witness ==
    \E i \in 1..Len(graphic_blocks) :
        /\ graphic_blocks[i].extension.some
        /\ graphic_blocks[i].extension.val.delay_time = 258
        /\ graphic_blocks[i].extension.val.disposal_method = 2
        /\ graphic_blocks[i].extension.val.transparent_color_flag
        /\ graphic_blocks[i].extension.val.transparent_color_index = 3

(***************************************************************************)
(* C6: graphic_blocks and special_purpose_extensions list the completed    *)
(* image blocks, and the completed comment and application extensions, in  *)
(* stream order, and every step only appends to them.                      *)
(***************************************************************************)
StreamOrder ==
    /\ Len(graphic_blocks) = Cardinality(ImageEntries)
    /\ Len(special_purpose_extensions) = Cardinality(SpecialEntries)
    /\ \A i \in ImageEntries :
          LET at == blocks[i].at
          IN /\ FrameOf(i).render_block.left_position = input[at + 2] + 256 * input[at + 3]
             /\ FrameOf(i).render_block.width = input[at + 6] + 256 * input[at + 7]
             /\ FrameOf(i).render_block.local_color_table_flag = (input[at + 10] >= 128)
    /\ \A i \in SpecialEntries :
          LET at == blocks[i].at
          IN IF KindAt(i) = "Comment"
             THEN /\ SpecialOf(i).tag = "CommentBlock"
                  /\ SpecialOf(i).data = read_data_sub_blocks(input, at + 2).val
             ELSE /\ SpecialOf(i).tag = "ApplicationBlock"
                  /\ SpecialOf(i).application_identifier = SubSeq(input, at + 4, at + 11)
                  /\ SpecialOf(i).application_data = read_data_sub_blocks(input, at + 14).val

C6_OrderPreserved ==
    /\ []StreamOrder
    /\ [][/\ IsPrefix(graphic_blocks, graphic_blocks')
          /\ IsPrefix(special_purpose_extensions, special_purpose_extensions')]_vars

C6_Witness ==
    /\ Len(graphic_blocks) = 2
    /\ graphic_blocks[1] # graphic_blocks[2]
    /\ Len(special_purpose_extensions) = 1

(***************************************************************************)
(* C7: the step after the dispatch state has read the trailer byte returns *)
(* Ok, reads nothing and leaves the decoder's fields alone; the trailer    *)
(* state is entered only by reading 0x3B at dispatch and Done only from    *)
(* the trailer state.                                                      *)
(***************************************************************************)
C7_TrailerEndsParse ==
    [][/\ (result = Running /\ state.tag = "ProcessTrailer")
            => /\ result' = ResOk
               /\ state' = S_Done
               /\ input' = input
               /\ eof' = eof
               /\ Self' = Self
       /\ (state'.tag = "ProcessTrailer" /\ state.tag # "ProcessTrailer")
            => /\ state.tag = "DetermineNextBlock"
               /\ input' = Append(input, TRAILER_LABEL)
               /\ Self' = Self
       /\ (state'.tag = "Done") => (state.tag = "ProcessTrailer")
       /\ (result' = ResOk) => (state'.tag = "Done")]_vars

C7_Witness ==
    /\ result = ResOk
    /\ state = S_Done
    /\ Len(graphic_blocks) >= 1
    /\ input[Len(input)] = TRAILER_LABEL

(***************************************************************************)
(* C8: parse() ends with Ok or an error value on every input; no input     *)
(* makes it panic.                                                         *)
(***************************************************************************)
C8_NeverPanics == result # ResPanic

(***************************************************************************)
(* C9: when parse() returns an error the decoder shows nothing of what was *)
(* parsed before the failure.                                              *)
(***************************************************************************)
C9_NoPartialResultOnError ==
    result.tag = "Err" =>
        /\ version = None
        /\ logical_screen_descriptor = None
        /\ global_color_table = None
        /\ special_purpose_extensions = <<>>
        /\ graphic_blocks = <<>>
        /\ loop_count = None

(***************************************************************************)
(* C10: a stream that ends inside the signature, or inside the version     *)
(* after the signature GIF, makes parse() fail with UnexpectedEof.         *)
(***************************************************************************)
C10_ShortHeaderIsUnexpectedEof ==
    (/\ result # Running
     /\ eof
     /\ Len(input) < 6
     /\ (Len(input) < 3 \/ SubSeq(input, 1, 3) = Str_GIF))
        => (result.tag = "Err" /\ result.name = "UnexpectedEof")

(***************************************************************************)
(* The sub-block chain of the block being read, found in the raw bytes.    *)
(***************************************************************************)
\* the offset in `input` of the first size byte of the chain of the image
\* whose 0x2C byte is at offset `at`: after the descriptor, the local color
\* table if there is one, and the code size byte
ImageChainStart(at) ==
    at + 11 + (IF input[at + 10] >= 128 THEN color_table_size(input[at + 10]) ELSE 0)

RECURSIVE ShortSubBlock(_, _)
\* walking the chain whose size byte is at offset p of `bytes`: some
\* sub-block advertises more bytes than are left
ShortSubBlock(bytes, p) ==
    IF p >= Len(bytes) THEN FALSE
    ELSE IF bytes[p + 1] = 0 THEN FALSE
    ELSE IF p + 1 + bytes[p + 1] > Len(bytes) THEN TRUE
    ELSE ShortSubBlock(bytes, p + 1 + bytes[p + 1])

\* parse() has ended while reading the chain of an image or of a comment,
\* and the stream ends inside a sub-block of that chain
EndedInShortSubBlock ==
    /\ result # Running
    /\ \/ /\ state.tag = "ProcessImageData"
          /\ ShortSubBlock(input, ImageChainStart(block_start))
       \/ /\ state.tag = "ProcessExtension"
          /\ state.label = COMMENT_EXTENSION
          /\ ShortSubBlock(input, block_start + 2)

(***************************************************************************)
(* C11: when a sub-block of an image's (or a comment's) chain advertises   *)
(* more bytes than are left before the end of the stream, parse() returns  *)
(* UnexpectedEof and no frame (no comment) is appended for the block: the  *)
(* lists hold the blocks completed before it and nothing else.             *)
(***************************************************************************)
C11_ShortSubBlockIsUnexpectedEof ==
    EndedInShortSubBlock =>
        /\ result = ResErr("UnexpectedEof", 0)
        /\ Len(graphic_blocks) = Cardinality(ImageEntries)
        /\ Len(special_purpose_extensions) = Cardinality(SpecialEntries)

C11_Witness ==
    /\ EndedInShortSubBlock
    /\ state.tag = "ProcessImageData"
    /\ input[Len(input) - 1] = 2
    /\ Len(graphic_blocks) = 1

(***************************************************************************)
(* C12: a stream whose first three bytes are not "GIF" makes parse() fail  *)
(* with InvalidSignature after those three bytes, the version unread, and  *)
(* the decoder's fields as Decoder::new left them.                         *)
(***************************************************************************)
C12_BadSignatureIsInvalidSignature ==
    (/\ result # Running
     /\ Len(input) >= 3
     /\ SubSeq(input, 1, 3) # Str_GIF)
        => /\ result = ResErr("InvalidSignature", 0)
           /\ state = S_ProcessMagic
           /\ Len(input) = 3
           /\ version = None
           /\ logical_screen_descriptor = None
           /\ global_color_table = None
           /\ loop_count = None
           /\ special_purpose_extensions = <<>>
           /\ graphic_blocks = <<>>

(***************************************************************************)
(* C13: once the block-size byte of a graphic control, application or      *)
(* plain-text extension has been read and is not 4, 11 or 12, parse() has  *)
(* returned the error MalformedExtensionBlockSize: it has neither panicked *)
(* nor gone on with the block.                                             *)
(***************************************************************************)
\* the extension at block_start has had its block-size byte read, and the
\* byte is not the one its label requires
WrongBlockSize ==
    /\ Len(input) >= block_start + 3
    /\ input[block_start + 1] = EXTENSION_INTRODUCER
    /\ \/ input[block_start + 2] = GRAPHIC_CONTROL_EXTENSION /\ input[block_start + 3] # 4
       \/ input[block_start + 2] = APPLICATION_EXTENSION /\ input[block_start + 3] # 11
       \/ input[block_start + 2] = PLAIN_TEXT_EXTENSION /\ input[block_start + 3] # 12

C13_BlockSizeIsValidated ==
    WrongBlockSize => (result.tag = "Err" /\ result.name = "MalformedExtensionBlockSize")

(***************************************************************************)
(* C14: once the eight bytes of a graphic control extension have been read *)
(* and the disposal field (bits 2-4 of the packed byte) is greater than 3, *)
(* parse() has returned the error InvalidDisposalMethod; and no frame      *)
(* carries a disposal_method outside 0..3.                                 *)
(***************************************************************************)
C14_DisposalMethodIsValidated ==
    /\ (/\ Len(input) >= block_start + 8
        /\ input[block_start + 1] = EXTENSION_INTRODUCER
        /\ input[block_start + 2] = GRAPHIC_CONTROL_EXTENSION
        /\ (input[block_start + 4] \div 4) % 8 > 3)
           => (result.tag = "Err" /\ result.name = "InvalidDisposalMethod")
    /\ \A i \in 1..Len(graphic_blocks) :
          graphic_blocks[i].extension.some
              => graphic_blocks[i].extension.val.disposal_method \in 0..3

(***************************************************************************)
(* C15: once the minimum-code-size byte of an image and the sub-blocks      *)
(* after it have been read, and the byte is outside 1..8, parse() has      *)
(* returned the error InvalidLzwCodeSize; so no image block whose byte is  *)
(* outside 1..8 is ever completed (decoded).                               *)
(***************************************************************************)
\* the minimum-code-size byte of the image whose 0x2C byte is at offset `at`
LzwCodeSizeOf(at) == input[ImageChainStart(at)]

RECURSIVE CompleteChain(_, _)
\* the chain whose size byte is at offset p of `bytes` is there up to its
\* terminator
CompleteChain(bytes, p) ==
    IF p >= Len(bytes) THEN FALSE
    ELSE IF bytes[p + 1] = 0 THEN TRUE
    ELSE CompleteChain(bytes, p + 1 + bytes[p + 1])

\* the block at block_start is an image and its data have been read
ImageDataRead ==
    /\ Len(input) >= block_start + 10
    /\ input[block_start + 1] = IMAGE_DESCRIPTOR_LABEL
    /\ Len(input) >= ImageChainStart(block_start)
    /\ CompleteChain(input, ImageChainStart(block_start))

C15_LzwCodeSizeIsValidated ==
    /\ (ImageDataRead /\ LzwCodeSizeOf(block_start) \notin 1..8)
           => (result.tag = "Err" /\ result.name = "InvalidLzwCodeSize")
    /\ \A i \in ImageEntries : LzwCodeSizeOf(blocks[i].at) \in 1..8

(***************************************************************************)
(* C16: loop_count is Some exactly when an application extension with      *)
(* identifier NETSCAPE and authentication code 2.0 has been completed; its *)
(* value is that of the last one, Infinite when bytes 1-2 of its data      *)
(* (little-endian) are 0 and Number(n) otherwise.  It holds in every       *)
(* state, so after a successful parse() and across every other block.      *)
(***************************************************************************)
RECURSIVE ChainData(_, _)
\* the payload bytes of the chain whose size byte is at offset p of `bytes`
ChainData(bytes, p) ==
    IF p >= Len(bytes) THEN <<>>
    ELSE IF bytes[p + 1] = 0 THEN <<>>
    ELSE SubSeq(bytes, p + 2, Min(p + 1 + bytes[p + 1], Len(bytes)))
             \o ChainData(bytes, p + 1 + bytes[p + 1])

\* the completed application extensions that spell NETSCAPE 2.0
NetscapeEntries ==
    {i \in 1..Len(blocks) :
        /\ KindAt(i) = "Application"
        /\ SubSeq(input, blocks[i].at + 4, blocks[i].at + 11) = Str_NETSCAPE
        /\ SubSeq(input, blocks[i].at + 12, blocks[i].at + 14) = Str_2_0}

\* the loop count the bytes of the stream spell out
RawLoopCount ==
    IF NetscapeEntries = {} THEN None
    ELSE LET last == CHOOSE i \in NetscapeEntries : \A j \in NetscapeEntries : j <= i
             data == ChainData(input, blocks[last].at + 14)
             n == data[2] + 256 * data[3]
         IN Some(IF n = 0 THEN [tag |-> "Infinite"] ELSE [tag |-> "Number", number |-> n])

C16_LoopCountFromNetscape ==
    /\ loop_count = RawLoopCount
    /\ \A i \in NetscapeEntries : Len(ChainData(input, blocks[i].at + 14)) = 3

C16_Witness ==
    /\ result = ResOk
    /\ Cardinality(NetscapeEntries) = 2
    /\ Len(blocks) = 3
    /\ loop_count = Some([tag |-> "Infinite"])
    /\ \E i \in NetscapeEntries : ChainData(input, blocks[i].at + 14) = <<1, 2, 1>>

(***************************************************************************)
(* C17: every frame in graphic_blocks has an index buffer of exactly       *)
(* width * height entries.                                                 *)
(***************************************************************************)
C17_IndexCountIsWidthTimesHeight ==
    \A i \in 1..Len(graphic_blocks) :
        /\ graphic_blocks[i].render_block.image_indexes.some
        /\ Len(graphic_blocks[i].render_block.image_indexes.val)
              = graphic_blocks[i].render_block.width * graphic_blocks[i].render_block.height

(***************************************************************************)
(* C18: for every minimum code size k and every n with 1 <= n <= 2^k, the  *)
(* call of lzw_decode on the encoding of 0, 1, ..., n - 1 returns exactly  *)
(* 0, 1, ..., n - 1.                                                       *)
(***************************************************************************)
C18_IdentityRoundTrip ==
    (/\ encoded_from.some
     /\ encoded_from.val = Identity(Len(encoded_from.val))
     /\ lzw_buf = Encode(encoded_from.val, lzw_minimum_code_size)
     /\ lz.status \in {"done", "panic"})
        => (lz.status = "done" /\ lz.indicies = encoded_from.val)

(***************************************************************************)
(* The codes of the buffer of lzw_decode, read off its bits.               *)
(***************************************************************************)
\* bit i (from 0) of the bytes, the lowest bit of a byte first
RawBit(bytes, i) == (bytes[(i \div 8) + 1] \div Pow2(i % 8)) % 2

RECURSIVE RawCode(_, _, _)
\* the number that the `width` bits from bit `pos` on spell, lowest first
RawCode(bytes, pos, width) ==
    IF width = 0 THEN 0 ELSE RawBit(bytes, pos) + 2 * RawCode(bytes, pos + 1, width - 1)

HasCode(bytes, pos, width) == pos + width <= 8 * Len(bytes)

\* the dictionary at the start: 2^k + 2 entries, entry c holding the index c
InitialDictionary(k) == [i \in 1..(Pow2(k) + 2) |-> <<i - 1>>]

(***************************************************************************)
(* C19: an iteration of the loop of lzw_decode that reads a clear code     *)
(* leaves the dictionary with its initial 2^k + 2 entries and the width    *)
(* minimum_code_size + 1; the code after the clear code (an index code)    *)
(* has been read at that width, is the previous code, and its expansion,   *)
(* the index itself, is the only thing added to the output: no entry is    *)
(* added for it.                                                           *)
(***************************************************************************)
C19_ClearCodeResets ==
    [][LET k == lzw_minimum_code_size
           pos == lz.reader.position
           after == pos + lz.code_size
       IN (/\ lz.status = "run"
           /\ HasCode(lzw_buf, pos, lz.code_size)
           /\ RawCode(lzw_buf, pos, lz.code_size) = Pow2(k)
           /\ HasCode(lzw_buf, after, k + 1)
           /\ RawCode(lzw_buf, after, k + 1) < Pow2(k))
              => /\ lz'.status = "run"
                 /\ lz'.code_table = InitialDictionary(k)
                 /\ lz'.code_size = k + 1
                 /\ lz'.reader.position = after + k + 1
                 /\ lz'.last_code = RawCode(lzw_buf, after, k + 1)
                 /\ lz'.indicies = Append(lz.indicies, RawCode(lzw_buf, after, k + 1))]_vars

\* the call stands after the clear code of 0 1 1 0 <clear> 1: the
\* dictionary had grown to 9 entries and the width to 4
C19_Witness ==
    /\ lzw_minimum_code_size = 2
    /\ lzw_buf = Encode(<<0, 1, 1, 0>> \o ClearRequest \o <<1>>, 2)
    /\ lz.status = "run"
    /\ lz.code_table = InitialDictionary(2)
    /\ lz.code_size = 3
    /\ lz.last_code = 1
    /\ lz.indicies = <<0, 1, 1, 0, 1>>

(***************************************************************************)
(* C20: the first code of the stream that is not a clear code is the       *)
(* initial previous code and its expansion the first output, no entry      *)
(* being added.  For a stream that begins with a clear code and an index   *)
(* code d: once the lines before the loop have run, last_code is d, the    *)
(* output is d alone and the dictionary is the initial one.  For a stream  *)
(* that begins with an index code d: the output begins with d.             *)
(***************************************************************************)
C20_FirstCodeIsPreviousCode ==
    LET k == lzw_minimum_code_size
        first == RawCode(lzw_buf, 0, k + 1)
        second == RawCode(lzw_buf, k + 1, k + 1)
    IN /\ (/\ lz.status = "run"
           /\ lz.reader.position = 2 * (k + 1)
           /\ first = Pow2(k)
           /\ second < Pow2(k))
              => /\ lz.last_code = second
                 /\ lz.indicies = <<second>>
                 /\ lz.code_table = InitialDictionary(k)
       /\ (/\ lz.status \in {"run", "done"}
           /\ first < Pow2(k))
              => /\ Len(lz.indicies) >= 1
                 /\ lz.indicies[1] = first

(***************************************************************************)
(* C21: whenever lzw_decode is about to read a code, the width is at most  *)
(* 12 and, while it is below 12, every code that is defined can be written *)
(* at that width: the dictionary has at most 2^code_size entries.  (The    *)
(* width goes up by one when an addition makes the next index to be        *)
(* assigned equal to 2^code_size.)                                         *)
(***************************************************************************)
C21_WidthFitsDictionary ==
    lz.status = "run"
        => /\ lz.code_size <= 12
           /\ lz.code_size < 12 => Len(lz.code_table) <= Pow2(lz.code_size)

(***************************************************************************)
(* C22: a call of lzw_decode that finds fewer bits left than a code takes, *)
(* no end-of-information code having been read, does not end with a normal *)
(* result.                                                                 *)
(***************************************************************************)
C22_TruncatedStreamFails ==
    [][(/\ lz.status = "run"
        /\ ~HasCode(lzw_buf, lz.reader.position, lz.code_size))
           => lz'.status # "done"]_vars

(***************************************************************************)
(* C23: an iteration of the loop of lzw_decode that reads a code greater   *)
(* than the next index to be assigned (the length of the dictionary) ends  *)
(* the call with an error: the call neither goes on decoding, nor returns  *)
(* indices, nor panics.                                                    *)
(***************************************************************************)
C23_CodeBeyondNextIndexIsRejected ==
    [][(/\ lz.status = "run"
        /\ HasCode(lzw_buf, lz.reader.position, lz.code_size)
        /\ RawCode(lzw_buf, lz.reader.position, lz.code_size) > Len(lz.code_table))
           => lz'.status \notin {"run", "done", "panic"}]_vars

(***************************************************************************)
(* C24: a call next(count) of a BitReader, 1 <= count <= 12, that finds    *)
(* count bits left returns the number spelled by the bits of the buffer    *)
(* from the reader's position on, bit 0 of byte 0 being the first bit of   *)
(* the buffer and the first bit taken the lowest of the result; bytes'     *)
(* boundaries play no part.                                                *)
(***************************************************************************)
C24_BitsLsbFirst ==
    [][br_reader.position + br_count' <= 8 * Len(br_buf)
          => /\ br_value'.some
             /\ br_value'.val = RawCode(br_buf, br_reader.position, br_count')]_vars

\* tests::it_works: the third call next(3) on 0x84 0x8F ... crosses into the
\* second byte and returns 0b110
C24_Witness ==
    /\ br_buf = <<132, 143>>
    /\ br_reader.position = 9
    /\ br_count = 3
    /\ br_value = Some(6)

(***************************************************************************)
(* C25: a call next(count) of a BitReader returns None exactly when fewer  *)
(* than count bits are left (position + count > 8 * len(buf)) and then     *)
(* leaves the reader as it was; a call that succeeds moves the position on *)
(* by exactly count; the position never passes the end of the buffer.      *)
(***************************************************************************)
C25_NoneLeavesPosition ==
    [][/\ br_value'.some <=> br_reader.position + br_count' <= 8 * Len(br_buf)
       /\ ~br_value'.some => br_reader' = br_reader
       /\ br_value'.some => br_reader'.position = br_reader.position + br_count'
       /\ br_reader'.length = 8 * Len(br_buf)
       /\ br_reader'.position <= 8 * Len(br_buf)]_vars

\* 7 bits are left of 0x84 0x8F and next(12) has just returned None
C25_Witness ==
    /\ br_buf = <<132, 143>>
    /\ br_reader.position = 9
    /\ br_count = 12
    /\ br_value = None

(***************************************************************************)
(* C26: where a block is expected, a byte other than 0x21, 0x2C and 0x3B   *)
(* makes parse() fail with the unexpected-label error carrying that byte,  *)
(* nothing being read after it.  After 0x21 the label is kept; a label     *)
(* other than 0x01, 0xF9, 0xFE and 0xFF then makes parse() fail with the   *)
(* invalid-extension-label error carrying that label, nothing being read.  *)
(***************************************************************************)
KnownBlockLabels == {EXTENSION_INTRODUCER, IMAGE_DESCRIPTOR_LABEL, TRAILER_LABEL}
KnownExtensionLabels ==
    {PLAIN_TEXT_EXTENSION, GRAPHIC_CONTROL_EXTENSION, COMMENT_EXTENSION, APPLICATION_EXTENSION}

C26_UnknownLabelsFail ==
    [][LET taken == SubSeq(input', Len(input) + 1, Len(input'))
       IN /\ (/\ InState("DetermineNextBlock")
              /\ taken # <<>>
              /\ taken[1] \notin KnownBlockLabels)
                 => /\ result' = ResErr("UnexpectedLabel", taken[1])
                    /\ Len(taken) = 1
          /\ (/\ InState("DetermineNextBlock")
              /\ Len(taken) >= 2
              /\ taken[1] = EXTENSION_INTRODUCER)
                 => /\ Len(taken) = 2
                    /\ result' = Running
                    /\ state' = S_ProcessExtension(taken[2])
          /\ (/\ InState("ProcessExtension")
              /\ state.label \notin KnownExtensionLabels)
                 => /\ result' = ResErr("InvalidExtensionLabel", state.label)
                    /\ taken = <<>>]_vars

\* a stream with a comment, then 0x21 0x2C: the image label in the place of
\* an extension label
C26_Witness ==
    /\ result = ResErr("InvalidExtensionLabel", IMAGE_DESCRIPTOR_LABEL)
    /\ Len(blocks) = 1
    /\ input[Len(input)] = IMAGE_DESCRIPTOR_LABEL
    /\ input[Len(input) - 1] = EXTENSION_INTRODUCER

(***************************************************************************)
(* C27: called where a complete chain of sub-blocks begins,                *)
(* read_data_sub_blocks returns the payloads of the sub-blocks up to the   *)
(* first size byte 0, one after the other, and has then taken from the     *)
(* stream exactly the chain with that byte and nothing after it; when the  *)
(* first size byte is 0 it returns no byte at all.                         *)
(***************************************************************************)
RECURSIVE ChainEnd(_, _)
\* the offset after the terminator of the complete chain whose first size
\* byte is at offset p
ChainEnd(bytes, p) ==
    IF bytes[p + 1] = 0 THEN p + 1 ELSE ChainEnd(bytes, p + 1 + bytes[p + 1])

C27_SubBlocksConcatenated ==
    (/\ sb_out # SubIdle
     /\ CompleteChain(sb_inner, sb_out.from))
        => /\ sb_out.status = "Ok"
           /\ sb_out.val = ChainData(sb_inner, sb_out.from)
           /\ sb_out.p = ChainEnd(sb_inner, sb_out.from)
           /\ sb_inner[sb_out.from + 1] = 0 => sb_out.val = <<>>

\* two sub-blocks of one byte each, and a byte after the terminator
C27_Witness ==
    /\ sb_inner = <<1, 7, 1, 2, 0>>
    /\ sb_out = [status |-> "Ok", from |-> 0, val |-> <<7, 2>>, p |-> 5]

\* a chain of one sub-block of two bytes that begins at the second byte
C27_WitnessOffset ==
    /\ sb_inner = <<7, 2, 0, 1, 0>>
    /\ sb_out = [status |-> "Ok", from |-> 1, val |-> <<0, 1>>, p |-> 5]

(***************************************************************************)
(* C28: an iteration of the loop of lzw_decode that reads a code C other   *)
(* than the clear and the end code appends exactly one entry to the        *)
(* dictionary and makes C the previous code.  When C is defined, the       *)
(* entry is the expansion of the previous code followed by the first index *)
(* of the expansion of C, and the expansion of C is added to the output;   *)
(* when C is not defined, the entry is the expansion of the previous code  *)
(* followed by its own first index, and the entry is added to the output.  *)
(***************************************************************************)
UpdateRule(C) ==
    LET n == Len(lz.code_table)
        previous == lz.code_table[lz.last_code + 1]
        entry == IF C < n THEN Append(previous, lz.code_table[C + 1][1])
                 ELSE Append(previous, previous[1])
    IN /\ lz'.status = "run"
       /\ lz'.code_table = Append(lz.code_table, entry)
       /\ lz'.last_code = C
       /\ lz'.indicies = lz.indicies \o (IF C < n THEN lz.code_table[C + 1] ELSE entry)

C28_DictionaryUpdateRule ==
    [][LET k == lzw_minimum_code_size
           pos == lz.reader.position
       IN (/\ lz.status = "run"
           /\ HasCode(lzw_buf, pos, lz.code_size)
           /\ RawCode(lzw_buf, pos, lz.code_size) \notin {Pow2(k), Pow2(k) + 1})
              => /\ lz'.status = "run"
                 /\ UpdateRule(RawCode(lzw_buf, pos, lz.code_size))]_vars

(***************************************************************************)
(* C29: every index that lzw_decode has put out is below                   *)
(* 2^minimum_code_size, and so is every index of an entry of its           *)
(* dictionary other than the two entries of the clear and the end code:    *)
(* the control codes add nothing to the output or to an entry.             *)
(***************************************************************************)
C29_ControlCodesHaveNoExpansion ==
    lz.status \in {"run", "done"}
        => /\ \A i \in 1..Len(lz.indicies) : lz.indicies[i] < Pow2(lzw_minimum_code_size)
           /\ \A c \in (Pow2(lzw_minimum_code_size) + 3)..Len(lz.code_table) :
                 \A i \in 1..Len(lz.code_table[c]) :
                    lz.code_table[c][i] < Pow2(lzw_minimum_code_size)

(***************************************************************************)
(* C30: an iteration of the loop of lzw_decode that reads the              *)
(* end-of-information code ends the call: what is returned is the output   *)
(* of the codes before it and the dictionary gets no entry.  The bits      *)
(* after the code are not looked at, the call being over.                  *)
(***************************************************************************)
C30_EndCodeStops ==
    [][(/\ lz.status = "run"
        /\ HasCode(lzw_buf, lz.reader.position, lz.code_size)
        /\ RawCode(lzw_buf, lz.reader.position, lz.code_size)
              = Pow2(lzw_minimum_code_size) + 1)
           => /\ lz'.status = "done"
              /\ lz'.indicies = lz.indicies
              /\ lz'.code_table = lz.code_table
              /\ lz'.reader.position = lz.reader.position + lz.code_size]_vars

\* the codes 4 0 5 7: the call is over after the end code 5, the code 7
\* behind it unread
C30_Witness ==
    /\ lzw_minimum_code_size = 2
    /\ lzw_buf = CodeStream(<<4, 0, 5, 7>>, 2)
    /\ lz.status = "done"
    /\ lz.indicies = <<0>>
    /\ lz.code_table = InitialDictionary(2)
    /\ lz.reader.position = 9

(***************************************************************************)
(* C31: the dictionary of lzw_decode never holds more than 4096 entries.   *)
(***************************************************************************)
C31_DictionaryAtMost4096 ==
    lz.status \in {"run", "done"} => Len(lz.code_table) <= 4096

(***************************************************************************)
(* C32: parse() comes to an end on every finite stream.  Every turn of its *)
(* loop takes at least one byte from the stream, or returns an error, or   *)
(* goes from ProcessTrailer to Done; and in the end parse() has returned   *)
(* Ok or Err.                                                              *)
(***************************************************************************)
TurnMakesProgress ==
    result = Running
        => \/ Len(input') > Len(input)
           \/ result'.tag = "Err"
           \/ state = S_ProcessTrailer /\ state' = S_Done

C32_ParseReturns ==
    /\ [][TurnMakesProgress]_vars
    /\ <>(result.tag \in {"Ok", "Err"})

====
